---- MODULE Spec2Model ----
(***************************************************************************)
(* Model of recordscreen.py: one run of the script, from the parsed        *)
(* command line to the launch of the external capture process.             *)
(*                                                                         *)
(* A Python string is a sequence of text pieces.  Text the script looks    *)
(* into is cut where the script cuts it: digits and "x" of a position or   *)
(* size option are pieces of one character, "." of a path is a piece of    *)
(* its own, and a word without "." (a stem, an extension, a tool name, an  *)
(* option literal) is one piece.  Concatenation is \o.                     *)
(***************************************************************************)
EXTENDS Integers, Sequences, FiniteSets, TLC

VARIABLES
  opts,       \* optparse result: the options and the positional arguments
  env,        \* what the machine answers: tools, files, screen, window, os
  pc,         \* position in the __main__ block
  err,        \* why the run ended early ("" while it has not)
  TOOL,       \* the bound tool
  probed,     \* check_tool calls made so far, with their outcome
  outfile,    \* output path
  container,  \* reconciled container
  acodec,     \* audio codec in use
  vcodec,     \* video codec in use
  dres,       \* desktop resolution
  x, y, width, height,   \* capture rectangle
  cmd,        \* argument vector
  launched,   \* number of subprocess.Popen(cmd) calls made for the capture
  done        \* steps of the run completed so far, in order

vars == <<opts, env, pc, err, TOOL, probed, outfile, container, acodec, vcodec,
          dres, x, y, width, height, cmd, launched, done>>

----------------------------------------------------------------------------
(* Python values *)

\* None, where a string is expected
None == <<"<None>">>
\* None, where a tuple of integers is expected
NoTuple == <<>>
\* truth value of a string-or-None in "if v:" / "if not v:"
Truthy(v) == v # None /\ v # <<>>
\* a literal of one piece
Lit(s) == <<s>>

DigitChars == <<"0", "1", "2", "3", "4", "5", "6", "7", "8", "9">>
IsDigit(c) == \E d \in 1..10 : DigitChars[d] = c
DigitValue(c) == (CHOOSE d \in 1..10 : DigitChars[d] = c) - 1

\* str(n) of a natural number
RECURSIVE StrNat(_)
StrNat(n) == IF n < 10 THEN <<DigitChars[n + 1]>>
             ELSE StrNat(n \div 10) \o <<DigitChars[(n % 10) + 1]>>
\* str(n), and "%d" % n
Str(n) == IF n < 0 THEN <<"-">> \o StrNat(-n) ELSE StrNat(n)

\* s.rjust(w, fill)
rjust(s, w, fill) ==
  IF Len(s) >= w THEN s ELSE [k \in 1..(w - Len(s)) |-> fill] \o s

\* s.strip()
RECURSIVE lstrip(_)
lstrip(s) == IF s # <<>> /\ Head(s) = " " THEN lstrip(Tail(s)) ELSE s
RECURSIVE rstrip(_)
rstrip(s) == IF s # <<>> /\ s[Len(s)] = " " THEN rstrip(SubSeq(s, 1, Len(s) - 1)) ELSE s
strip(s) == rstrip(lstrip(s))

\* re.match("^[0-9]*x[0-9]*$", s)
MatchesNxN(s) ==
  \E k \in 1..Len(s) :
    /\ s[k] = "x"
    /\ \A j \in 1..Len(s) : j # k => IsDigit(s[j])

\* s.split("x") of a string that holds exactly one "x"
SplitX(s) ==
  LET k == CHOOSE k \in 1..Len(s) : s[k] = "x"
  IN  <<SubSeq(s, 1, k - 1), SubSeq(s, k + 1, Len(s))>>

\* int(s) of a string of digits; int("") raises ValueError
IntOk(s) == s # <<>>
RECURSIVE IntOf(_)
IntOf(s) == IF s = <<>> THEN 0
            ELSE 10 * IntOf(SubSeq(s, 1, Len(s) - 1)) + DigitValue(s[Len(s)])

\* outfile.rsplit(".", 1): <<whole>> without ".", else <<before last ".", after it>>
rsplit1(s) ==
  IF \E k \in 1..Len(s) : s[k] = "."
  THEN LET k == CHOOSE k \in 1..Len(s) :
                  s[k] = "." /\ \A j \in (k + 1)..Len(s) : s[j] # "."
       IN  <<SubSeq(s, 1, k - 1), SubSeq(s, k + 1, Len(s))>>
  ELSE <<s>>

----------------------------------------------------------------------------
(* Module-level constants of the script *)

DEFAULT_FPS == 15
DEFAULT_FILE_EXTENSION == Lit("mkv")
ACCEPTABLE_FILE_EXTENSIONS ==
  {Lit("avi"), Lit("mp4"), Lit("mov"), Lit("mkv"), Lit("ogv"), Lit("webm")}
DEFAULT_CAPTURE_AUDIO_DEVICE == Lit("pulse")
DEFAULT_CAPTURE_DISPLAY_DEVICE == Lit(":0.0")
DEFAULT_AUDIO_CODEC == Lit("aac")
DEFAULT_VIDEO_CODEC == Lit("h264")

tools == <<Lit("ffmpeg"), Lit("avconv"), Lit("vlc")>>

\* a sequence of literal tokens
Toks(ws) == [k \in 1..Len(ws) |-> Lit(ws[k])]

vcodecs ==
  (Lit("h264_lossless") :> Toks(<<"-c:v", "libx264", "-g", "15", "-crf", "0", "-pix_fmt", "yuv444p">>))
  @@ (Lit("h264") :> Toks(<<"-c:v", "libx264", "-vprofile", "baseline", "-g", "15", "-crf", "1", "-pix_fmt", "yuv420p">>))
  @@ (Lit("mpeg4") :> Toks(<<"-c:v", "mpeg4", "-g", "15", "-qmax", "1", "-qmin", "1">>))
  @@ (Lit("huffyuv") :> Toks(<<"-c:v", "huffyuv">>))
  @@ (Lit("ffv1") :> Toks(<<"-c:v", "ffv1", "-coder", "1", "-context", "1">>))
  @@ (Lit("vp8") :> Toks(<<"-c:v", "libvpx", "-g", "15", "-qmax", "1", "-qmin", "1">>))
  @@ (Lit("theora") :> Toks(<<"-c:v", "libtheora", "-g", "15", "-b:v", "40000k">>))

acodecs ==
  (Lit("pcm") :> Toks(<<"-c:a", "pcm_s16le">>))
  @@ (Lit("vorbis") :> Toks(<<"-c:a", "libvorbis", "-b:a", "320k">>))
  @@ (Lit("mp3") :> Toks(<<"-c:a", "libmp3lame", "-b:a", "320k">>))
  @@ (Lit("aac") :> Toks(<<"-c:a", "libvo_aacenc", "-b:a", "320k">>))
  @@ (Lit("faac") :> Toks(<<"-c:a", "libfaac", "-b:a", "320k">>))
  @@ (Lit("ffaac") :> Toks(<<"-strict", "experimental", "-c:a", "aac", "-b:a", "320k">>))

mults ==
  (Lit("h264") :> 2) @@ (Lit("h264_lossless") :> 2) @@ (Lit("mpeg4") :> 2)
  @@ (Lit("dirac") :> 2) @@ (Lit("xvid") :> 2) @@ (Lit("theora") :> 8)
  @@ (Lit("huffyuv") :> 2) @@ (Lit("ffv1") :> 1) @@ (Lit("vp8") :> 1)

----------------------------------------------------------------------------
(* Functions of the script.  A function that can raise returns a record    *)
(* [raised, exc, ...]; exc names the exception.                            *)

\* check_tool(command).  env.tool_status[command] is what spawning
\* [command, "-c:v", "huffyuv"] meets: "enoent" (Popen raises OSError with
\* errno ENOENT), "oserror" (Popen raises OSError with another errno),
\* "unrecognized" (the tool runs and prints "Unrecognized option"), "ok".
\* The bare "raise" of line 320 has no exception to re-raise: Python 3 raises
\* RuntimeError, Python 2 TypeError; neither is an EnvironmentError, so the
\* handler of line 322 does not catch it.
check_tool(command) ==
  LET st == env.tool_status[command]
  IN  CASE st = "enoent" -> [raised |-> FALSE, exc |-> "", ret |-> 0]
        [] st = "oserror" -> [raised |-> TRUE, exc |-> "EnvironmentError", ret |-> 0]
        [] st = "unrecognized" ->
             [raised |-> TRUE,
              exc |-> IF env.PYTHON_3 THEN "RuntimeError" ELSE "TypeError",
              ret |-> 0]
        [] OTHER -> [raised |-> FALSE, exc |-> "", ret |-> 1]

\* glob.glob("out_????" + "." + ext): the files of the working directory
\* named out_, four characters, ".", ext
GlobOut(ext) ==
  {f \in env.files :
     /\ Len(f) = 6 + Len(ext)
     /\ f[1] = "out_"
     /\ f[6] = "."
     /\ SubSeq(f, 7, Len(f)) = ext}

\* end of range(1, 9999), and the number of the fallback name "out_9999"
RangeEnd == 9999

SeqName(i, ext) == Lit("out_") \o rjust(Str(i), 4, "0") \o Lit(".") \o ext

\* get_default_output_path with its loop ending one number early
get_default_output_path_ShortLoop(ext) ==
  LET e == IF ext = None THEN DEFAULT_FILE_EXTENSION ELSE ext
      filenames == GlobOut(e)
      Unused(i) == SeqName(i, e) \notin filenames
  IN  IF \E i \in 1..(RangeEnd - 2) : Unused(i)
      THEN SeqName(CHOOSE i \in 1..(RangeEnd - 2) :
                     Unused(i) /\ \A j \in 1..(i - 1) : ~Unused(j), e)
      ELSE <<"out_", "9", "9", "9", "9">> \o Lit(".") \o e

get_default_output_path(ext) ==
  LET e == IF ext = None THEN DEFAULT_FILE_EXTENSION ELSE ext
      filenames == GlobOut(e)
      \* tally == 0 for the name of number i
      Unused(i) == SeqName(i, e) \notin filenames
  IN  IF \E i \in 1..(RangeEnd - 1) : Unused(i)
      THEN SeqName(CHOOSE i \in 1..(RangeEnd - 1) :
                     Unused(i) /\ \A j \in 1..(i - 1) : ~Unused(j), e)
      ELSE <<"out_", "9", "9", "9", "9">> \o Lit(".") \o e

\* get_desktop_resolution().  env.xdpyinfo is what calling xdpyinfo meets:
\* "oserror" (Popen raises), "nodims" (no "dimensions" line: the function
\* falls off its end and returns None), "ok".
get_desktop_resolution ==
  IF env.have_tk THEN [raised |-> FALSE, exc |-> "", value |-> env.screen]
  ELSE CASE env.xdpyinfo = "oserror" -> [raised |-> TRUE, exc |-> "OSError", value |-> NoTuple]
         [] env.xdpyinfo = "nodims" -> [raised |-> FALSE, exc |-> "", value |-> NoTuple]
         [] OTHER -> [raised |-> FALSE, exc |-> "", value |-> env.screen]

\* get_window_position_and_size(): (x, y, w, h) of the window the user
\* clicks, or None (xwininfo missing, or one of the four fields missing)
get_window_position_and_size == env.xwininfo

\* audio_capture_line(audio_device, audio_codec, output_path)
audio_capture_line(audio_device, audio_codec, output_path) ==
  IF audio_codec \notin DOMAIN acodecs
  THEN [raised |-> TRUE, exc |-> "KeyError", line |-> <<>>]
  ELSE [raised |-> FALSE, exc |-> "",
        line |-> <<Lit("-f"), Lit("alsa"), Lit("-ac"), Lit("2"), Lit("-i"), audio_device>>
                 \o acodecs[audio_codec]
                 \o <<output_path>>]

\* the thread count of lines 187-189
Threads == IF env.have_multiproc THEN env.cpu_count ELSE 2

\* video_capture_line with the size written as its parameters are named,
\* width then height
video_capture_line_NamedOrder(fps, x_, y_, height_, width_, display_device, video_codec, output_path) ==
  LET src == IF env.os_name = "nt"
             THEN <<Lit("-f"), Lit("gdigrab"),
                    Lit("-framerate"), Str(fps),
                    Lit("-offset_x"), Str(x_),
                    Lit("-offset_y"), Str(y_),
                    Lit("-video_size"), Str(width_) \o <<"x">> \o Str(height_),
                    Lit("-i"), Lit("desktop")>>
             ELSE <<Lit("-f"), Lit("x11grab"),
                    Lit("-r"), Str(fps),
                    Lit("-s"), Str(width_) \o <<"x">> \o Str(height_),
                    Lit("-i"), display_device \o <<"+">> \o Str(x_) \o <<",">> \o Str(y_)>>
  IN  IF video_codec \notin DOMAIN vcodecs
      THEN [raised |-> TRUE, exc |-> "KeyError", line |-> <<>>]
      ELSE [raised |-> FALSE, exc |-> "",
            line |-> src \o vcodecs[video_codec]
                     \o <<Lit("-threads"), Str(Threads)>>
                     \o <<output_path>>]

\* video_capture_line(fps, x, y, height, width, display_device, video_codec,
\* output_path); the parameters keep the order of the def
video_capture_line(fps, x_, y_, height_, width_, display_device, video_codec, output_path) ==
  LET src == IF env.os_name = "nt"
             THEN <<Lit("-f"), Lit("gdigrab"),
                    Lit("-framerate"), Str(fps),
                    Lit("-offset_x"), Str(x_),
                    Lit("-offset_y"), Str(y_),
                    Lit("-video_size"), Str(height_) \o <<"x">> \o Str(width_),
                    Lit("-i"), Lit("desktop")>>
             ELSE <<Lit("-f"), Lit("x11grab"),
                    Lit("-r"), Str(fps),
                    Lit("-s"), Str(height_) \o <<"x">> \o Str(width_),
                    Lit("-i"), display_device \o <<"+">> \o Str(x_) \o <<",">> \o Str(y_)>>
  IN  IF video_codec \notin DOMAIN vcodecs
      THEN [raised |-> TRUE, exc |-> "KeyError", line |-> <<>>]
      ELSE [raised |-> FALSE, exc |-> "",
            line |-> src \o vcodecs[video_codec]
                     \o <<Lit("-threads"), Str(Threads)>>
                     \o <<output_path>>]

\* capture_line(fps, x, y, height, width, display_device, audio_device,
\* video_codec, audio_codec, output_path)
capture_line(fps, x_, y_, height_, width_, display_device, audio_device, video_codec, audio_codec, output_path) ==
  LET a == IF env.os_name = "nt"
           THEN [raised |-> FALSE, exc |-> "", line |-> <<>>]
           ELSE audio_capture_line(audio_device, audio_codec, output_path)
      v == video_capture_line(fps, x_, y_, height_, width_, display_device, video_codec, output_path)
  IN  IF a.raised THEN a
      ELSE IF v.raised THEN v
      ELSE [raised |-> FALSE, exc |-> "", line |-> a.line \o v.line]

----------------------------------------------------------------------------
(* The __main__ block, one action per step *)

\* the run ends early: exit(...), parser.error(...) or an uncaught exception
Exit(e) ==
  /\ pc' = "exit"
  /\ err' = e

\* lines 386-389: --codecs prints the registries and exits with status 0
ListCodecs ==
  /\ pc = "start"
  /\ pc' = IF opts.list_codecs THEN "exit" ELSE "tool"
  /\ UNCHANGED <<opts, env, err, TOOL, probed, outfile, container, acodec, vcodec,
                 dres, x, y, width, height, cmd, launched, done>>

\* the tools lines 392-405 probe, in order
Candidates == IF Truthy(opts.tool) THEN <<opts.tool>> ELSE tools

\* the tool selection without the break of line 401
CheckNextTool_NoBreak ==
  /\ pc = "tool"
  /\ LET i == Len(probed) + 1
         r == check_tool(Candidates[i])
     IN  /\ probed' = Append(probed, [tool |-> Candidates[i], raised |-> r.raised, ret |-> r.ret])
         /\ IF r.raised
            THEN Exit(r.exc) /\ UNCHANGED <<TOOL, done>>
            ELSE IF r.ret # 0 /\ i = Len(Candidates)
            THEN /\ TOOL' = Candidates[i]
                 /\ pc' = "container"
                 /\ done' = Append(done, "tool")
                 /\ UNCHANGED err
            ELSE IF r.ret # 0
            THEN TOOL' = Candidates[i] /\ UNCHANGED <<pc, err, done>>
            ELSE IF i = Len(Candidates) /\ TOOL = None
            THEN Exit("NoToolAvailable") /\ UNCHANGED <<TOOL, done>>
            ELSE IF i = Len(Candidates)
            THEN pc' = "container" /\ done' = Append(done, "tool") /\ UNCHANGED <<err, TOOL>>
            ELSE UNCHANGED <<pc, err, TOOL, done>>
  /\ UNCHANGED <<opts, env, outfile, container, acodec, vcodec,
                 dres, x, y, width, height, cmd, launched>>

\* lines 391-407: one check_tool call of the tool selection and what follows it
CheckNextTool ==
  /\ pc = "tool"
  /\ LET i == Len(probed) + 1
         r == check_tool(Candidates[i])
     IN  /\ probed' = Append(probed, [tool |-> Candidates[i], raised |-> r.raised, ret |-> r.ret])
         /\ IF r.raised
            THEN Exit(r.exc) /\ UNCHANGED <<TOOL, done>>
            ELSE IF r.ret # 0
            THEN /\ TOOL' = Candidates[i]
                 /\ pc' = "container"
                 /\ done' = Append(done, "tool")
                 /\ UNCHANGED err
            ELSE IF i = Len(Candidates)
            THEN Exit("NoToolAvailable") /\ UNCHANGED <<TOOL, done>>
            ELSE UNCHANGED <<pc, err, TOOL, done>>
  /\ UNCHANGED <<opts, env, outfile, container, acodec, vcodec,
                 dres, x, y, width, height, cmd, launched>>

\* lines 410-413
CheckContainer ==
  /\ pc = "container"
  /\ IF Truthy(opts.container) /\ opts.container \notin ACCEPTABLE_FILE_EXTENSIONS
     THEN Exit("UnsupportedContainer") /\ UNCHANGED done
     ELSE pc' = "outfile" /\ done' = Append(done, "container") /\ UNCHANGED err
  /\ UNCHANGED <<opts, env, TOOL, probed, outfile, container, acodec, vcodec,
                 dres, x, y, width, height, cmd, launched>>

\* lines 415-420
SetOutputPath ==
  /\ pc = "outfile"
  /\ outfile' = IF opts.args # <<>> THEN opts.args[1]
                ELSE get_default_output_path(opts.container)
  /\ pc' = "ext"
  /\ UNCHANGED <<opts, env, err, TOOL, probed, container, acodec, vcodec,
                 dres, x, y, width, height, cmd, launched, done>>

\* the reconciliation with a valid extension winning over --container
ReconcileExtension_ExtensionWins ==
  /\ pc = "ext"
  /\ LET exts == rsplit1(outfile)
     IN  IF Len(exts) = 1 \/ exts[2] \notin ACCEPTABLE_FILE_EXTENSIONS
         THEN LET c == IF ~Truthy(opts.container) THEN DEFAULT_FILE_EXTENSION
                       ELSE opts.container
              IN  /\ container' = c
                  /\ outfile' = outfile \o Lit(".") \o c
         ELSE /\ container' = exts[2]
              /\ UNCHANGED outfile
  /\ pc' = "codecs"
  /\ UNCHANGED <<opts, env, err, TOOL, probed, acodec, vcodec,
                 dres, x, y, width, height, cmd, launched, done>>

\* lines 422-439
ReconcileExtension ==
  /\ pc = "ext"
  /\ LET exts == rsplit1(outfile)
     IN  IF Len(exts) = 1 \/ exts[2] \notin ACCEPTABLE_FILE_EXTENSIONS
         THEN LET c == IF ~Truthy(opts.container) THEN DEFAULT_FILE_EXTENSION
                       ELSE opts.container
              IN  /\ container' = c
                  /\ outfile' = outfile \o Lit(".") \o c
         ELSE /\ container' = IF ~Truthy(opts.container) THEN exts[2] ELSE opts.container
              /\ UNCHANGED outfile
  /\ pc' = "codecs"
  /\ UNCHANGED <<opts, env, err, TOOL, probed, acodec, vcodec,
                 dres, x, y, width, height, cmd, launched, done>>

\* the codecs taken from the options whatever the container
FixCodecs_KeepRequested ==
  /\ pc = "codecs"
  /\ vcodec' = opts.vcodec
  /\ acodec' = opts.acodec
  /\ pc' = "geometry"
  /\ UNCHANGED <<opts, env, err, TOOL, probed, outfile, container,
                 dres, x, y, width, height, cmd, launched, done>>

\* lines 442-453
FixCodecs ==
  /\ pc = "codecs"
  /\ vcodec' = IF container = Lit("webm") /\ opts.vcodec # Lit("vp8")
               THEN Lit("vp8") ELSE opts.vcodec
  /\ acodec' = IF container = Lit("webm") /\ opts.acodec # Lit("vorbis")
               THEN Lit("vorbis") ELSE opts.acodec
  /\ pc' = "geometry"
  /\ UNCHANGED <<opts, env, err, TOOL, probed, outfile, container,
                 dres, x, y, width, height, cmd, launched, done>>

\* lines 455-462
GetDesktopResolution ==
  /\ pc = "geometry"
  /\ LET r == get_desktop_resolution
     IN  IF r.raised
         THEN Exit("GeometryUnavailable") /\ UNCHANGED <<dres, done>>
         ELSE /\ dres' = r.value
              /\ pc' = "capture"
              /\ done' = IF r.value = NoTuple THEN done ELSE Append(done, "geometry")
              /\ UNCHANGED err
  /\ UNCHANGED <<opts, env, TOOL, probed, outfile, container, acodec, vcodec,
                 x, y, width, height, cmd, launched>>

\* lines 470-479: the position option
ParsePosition ==
  IF Truthy(opts.xy)
  THEN IF MatchesNxN(strip(opts.xy))
       THEN LET xy == SplitX(strip(opts.xy))
            IN  IF IntOk(xy[1]) /\ IntOk(xy[2])
                THEN [exc |-> "", val |-> <<IntOf(xy[1]), IntOf(xy[2])>>]
                ELSE [exc |-> "ValueError", val |-> <<0, 0>>]
       ELSE [exc |-> "MalformedOptionSyntax", val |-> <<0, 0>>]
  ELSE [exc |-> "", val |-> <<0, 0>>]

\* lines 481-490: the size option; dres[0] of None raises TypeError
ParseSize ==
  IF Truthy(opts.size)
  THEN IF MatchesNxN(strip(opts.size))
       THEN LET size == SplitX(strip(opts.size))
            IN  IF IntOk(size[1]) /\ IntOk(size[2])
                THEN [exc |-> "", val |-> <<IntOf(size[1]), IntOf(size[2])>>]
                ELSE [exc |-> "ValueError", val |-> <<0, 0>>]
       ELSE [exc |-> "MalformedOptionSyntax", val |-> <<0, 0>>]
  ELSE IF dres = NoTuple
       THEN [exc |-> "TypeError", val |-> <<0, 0>>]
       ELSE [exc |-> "", val |-> dres]

\* lines 464-490
CaptureValues ==
  /\ pc = "capture"
  /\ IF opts.capture_window
     THEN LET w == get_window_position_and_size
          IN  IF w = NoTuple
              THEN Exit("WindowPickFailed") /\ UNCHANGED <<x, y, width, height>>
              ELSE /\ x' = w[1] /\ y' = w[2] /\ width' = w[3] /\ height' = w[4]
                   /\ pc' = "crop" /\ UNCHANGED err
     ELSE LET p == ParsePosition
              s == ParseSize
          IN  IF p.exc # ""
              THEN Exit(p.exc) /\ UNCHANGED <<x, y, width, height>>
              ELSE IF s.exc # ""
              THEN Exit(s.exc) /\ x' = p.val[1] /\ y' = p.val[2] /\ UNCHANGED <<width, height>>
              ELSE /\ x' = p.val[1] /\ y' = p.val[2]
                   /\ width' = s.val[1] /\ height' = s.val[2]
                   /\ pc' = "crop" /\ UNCHANGED err
  /\ UNCHANGED <<opts, env, TOOL, probed, outfile, container, acodec, vcodec,
                 dres, cmd, launched, done>>

\* the crop without the shift of the origin
Crop_NoShift ==
  /\ pc = "crop"
  /\ width' = width - (opts.crop_left + opts.crop_right)
  /\ height' = height - (opts.crop_top + opts.crop_bottom)
  /\ pc' = "align"
  /\ UNCHANGED <<opts, env, err, TOOL, probed, outfile, container, acodec, vcodec,
                 dres, x, y, cmd, launched, done>>

\* lines 492-496
Crop ==
  /\ pc = "crop"
  /\ width' = width - (opts.crop_left + opts.crop_right)
  /\ height' = height - (opts.crop_top + opts.crop_bottom)
  /\ x' = x + opts.crop_left
  /\ y' = y + opts.crop_top
  /\ pc' = "align"
  /\ UNCHANGED <<opts, env, err, TOOL, probed, outfile, container, acodec, vcodec,
                 dres, cmd, launched, done>>

\* the alignment applied to the width alone
Align_WidthOnly ==
  /\ pc = "align"
  /\ IF vcodec \notin DOMAIN mults
     THEN Exit("UnknownCodec") /\ UNCHANGED <<width, done>>
     ELSE /\ width' = width - (width % mults[vcodec])
          /\ pc' = "verify"
          /\ done' = Append(done, "region")
          /\ UNCHANGED err
  /\ UNCHANGED <<opts, env, TOOL, probed, outfile, container, acodec, vcodec,
                 dres, x, y, height, cmd, launched>>

\* lines 498-502; Python's % with a positive divisor is in 0..divisor-1, as here
Align ==
  /\ pc = "align"
  /\ IF vcodec \notin DOMAIN mults
     THEN Exit("UnknownCodec") /\ UNCHANGED <<width, height, done>>
     ELSE /\ width' = width - (width % mults[vcodec])
          /\ height' = height - (height % mults[vcodec])
          /\ pc' = "verify"
          /\ done' = Append(done, "region")
          /\ UNCHANGED err
  /\ UNCHANGED <<opts, env, TOOL, probed, outfile, container, acodec, vcodec,
                 dres, x, y, cmd, launched>>

\* the off-screen check with parser.error returning instead of exiting
VerifyOnScreen_NoExit ==
  /\ pc = "verify"
  /\ IF dres = NoTuple
     THEN Exit("TypeError") /\ UNCHANGED done
     ELSE pc' = "command" /\ done' = Append(done, "onscreen") /\ UNCHANGED err
  /\ UNCHANGED <<opts, env, TOOL, probed, outfile, container, acodec, vcodec,
                 dres, x, y, width, height, cmd, launched>>

\* the off-screen check looking at the width alone
VerifyOnScreen_WidthOnly ==
  /\ pc = "verify"
  /\ IF dres = NoTuple
     THEN Exit("TypeError") /\ UNCHANGED done
     ELSE IF (x + width) > dres[1]
     THEN Exit("OffScreen") /\ UNCHANGED done
     ELSE pc' = "command" /\ done' = Append(done, "onscreen") /\ UNCHANGED err
  /\ UNCHANGED <<opts, env, TOOL, probed, outfile, container, acodec, vcodec,
                 dres, x, y, width, height, cmd, launched>>

\* the off-screen check preceded by a check that the size is positive
VerifyOnScreen_RejectsEmpty ==
  /\ pc = "verify"
  /\ IF dres = NoTuple
     THEN Exit("TypeError") /\ UNCHANGED done
     ELSE IF width <= 0 \/ height <= 0
     THEN Exit("InvalidRegion") /\ UNCHANGED done
     ELSE IF (x + width) > dres[1] \/ (y + height) > dres[2]
     THEN Exit("OffScreen") /\ UNCHANGED done
     ELSE pc' = "command" /\ done' = Append(done, "onscreen") /\ UNCHANGED err
  /\ UNCHANGED <<opts, env, TOOL, probed, outfile, container, acodec, vcodec,
                 dres, x, y, width, height, cmd, launched>>

\* lines 504-506; dres[0] of None raises TypeError
VerifyOnScreen ==
  /\ pc = "verify"
  /\ IF dres = NoTuple
     THEN Exit("TypeError") /\ UNCHANGED done
     ELSE IF (x + width) > dres[1] \/ (y + height) > dres[2]
     THEN Exit("OffScreen") /\ UNCHANGED done
     ELSE pc' = "command" /\ done' = Append(done, "onscreen") /\ UNCHANGED err
  /\ UNCHANGED <<opts, env, TOOL, probed, outfile, container, acodec, vcodec,
                 dres, x, y, width, height, cmd, launched>>

\* lines 508-513; the caller passes width where the def says height
BuildCommand ==
  /\ pc = "command"
  /\ LET l == IF ~opts.no_audio
              THEN capture_line(opts.fps, x, y, width, height, opts.display_device,
                                opts.audio_device, vcodec, acodec, outfile)
              ELSE video_capture_line(opts.fps, x, y, width, height,
                                      opts.display_device, vcodec, outfile)
     IN  IF l.raised
         THEN Exit("UnknownCodec") /\ UNCHANGED cmd
         ELSE cmd' = <<TOOL>> \o l.line /\ pc' = "launch" /\ UNCHANGED err
  /\ UNCHANGED <<opts, env, TOOL, probed, outfile, container, acodec, vcodec,
                 dres, x, y, width, height, launched, done>>

\* line 516: subprocess.Popen(cmd).wait()
Launch ==
  /\ pc = "launch"
  /\ launched' = launched + 1
  /\ done' = Append(done, "launch")
  /\ pc' = "done"
  /\ UNCHANGED <<opts, env, err, TOOL, probed, outfile, container, acodec, vcodec,
                 dres, x, y, width, height, cmd>>

Next ==
  \/ ListCodecs
  \/ CheckNextTool
  \/ CheckContainer
  \/ SetOutputPath
  \/ ReconcileExtension
  \/ FixCodecs
  \/ GetDesktopResolution
  \/ CaptureValues
  \/ Crop
  \/ Align
  \/ VerifyOnScreen
  \/ BuildCommand
  \/ Launch

----------------------------------------------------------------------------
(* Inputs: the command lines and machines the runs are checked on *)

\* largest crop margin tried
MaxCrop == 1
\* most ".word" suffixes of an output path tried
MaxDots == 2
\* the directories tried hold every subset of out_0001..out_000<MaxLow>
MaxLow == 3

\* optparse's defaults, lines 335-382
DefaultOpts ==
  [list_codecs |-> FALSE, tool |-> None, container |-> None, args |-> <<>>,
   acodec |-> DEFAULT_AUDIO_CODEC, vcodec |-> DEFAULT_VIDEO_CODEC,
   capture_window |-> FALSE, no_audio |-> FALSE, fps |-> DEFAULT_FPS,
   xy |-> None, size |-> None,
   crop_top |-> 0, crop_bottom |-> 0, crop_left |-> 0, crop_right |-> 0,
   audio_device |-> DEFAULT_CAPTURE_AUDIO_DEVICE,
   display_device |-> DEFAULT_CAPTURE_DISPLAY_DEVICE]

ToolNames == {Lit("ffmpeg"), Lit("avconv"), Lit("vlc"), Lit("mencoder")}
ToolStatuses == {"ok", "enoent", "unrecognized", "oserror"}

\* a machine where everything works
DefaultEnv ==
  [tool_status |-> [t \in ToolNames |-> "ok"], PYTHON_3 |-> TRUE,
   files |-> {}, os_name |-> "posix",
   have_tk |-> TRUE, screen |-> <<1920, 1080>>, xdpyinfo |-> "ok",
   xwininfo |-> NoTuple, have_multiproc |-> TRUE, cpu_count |-> 4]

\* tool selection: every answer of every tool, every --tool
ToolInputs ==
  /\ opts \in {[DefaultOpts EXCEPT !.tool = t] : t \in {None, <<>>} \cup ToolNames}
               \cup {[DefaultOpts EXCEPT !.list_codecs = TRUE]}
  /\ env \in {[DefaultEnv EXCEPT !.tool_status = f, !.PYTHON_3 = p] :
                f \in [ToolNames -> ToolStatuses], p \in BOOLEAN}

\* output paths: a stem followed by at most n ".word" suffixes
PathWords == {Lit("mkv"), Lit("mp4"), Lit("webm"), Lit("xyz"), <<>>}
RECURSIVE PathsUpTo(_)
PathsUpTo(n) ==
  IF n = 0 THEN {Lit("clip"), <<>>}
  ELSE PathsUpTo(n - 1)
       \cup {p \o Lit(".") \o w : p \in PathsUpTo(n - 1), w \in PathWords}
ContainerOptions == {None, <<>>, Lit("zzz")} \cup ACCEPTABLE_FILE_EXTENSIONS

ContainerInputs ==
  /\ opts \in {[DefaultOpts EXCEPT !.args = <<p>>, !.container = c] :
                 p \in PathsUpTo(MaxDots), c \in ContainerOptions}
  /\ env = DefaultEnv

\* working directories
NamesOf(S, ext) == {SeqName(i, ext) : i \in S}
OtherFiles ==
  {Lit("clip") \o Lit(".") \o Lit("mkv"),
   <<"out_", "a", "b", "c", "d", ".", "mkv">>,
   <<"out_", "0", "0", "0", "0", ".", "mkv">>,
   <<"out_", "1", "0", "0", "0", "0", ".", "mkv">>,
   <<"out_", "0", "0", "0", "1", ".", "webm">>,
   <<"out_", "0", "0", "0", "1", ".">>}
Directories ==
  {NamesOf(S, Lit("mkv")) \cup OtherFiles : S \in SUBSET (1..MaxLow)}
  \cup {NamesOf((1..k) \ H, Lit("mkv")) :
          k \in {50, RangeEnd - 2, RangeEnd - 1, RangeEnd},
          H \in {{}, {7}, {RangeEnd - 1}}}

PathInputs ==
  /\ opts \in {[DefaultOpts EXCEPT !.container = c] :
                 c \in {None, <<>>, Lit("mkv"), Lit("webm")}}
  /\ env \in {[DefaultEnv EXCEPT !.files = d] : d \in Directories}

\* regions
PositionOptions ==
  {None,
   <<"0", "x", "0">>,
   <<"1", "9", "0", "0", "x", "0">>,
   <<"0", "x", "1", "0", "0", "0">>,
   <<" ", "0", "5", "x", "7", " ">>,
   <<"x", "7">>,
   <<"5", ",", "7">>}
SizeOptions ==
  {None,
   <<"1", "9", "2", "0", "x", "1", "0", "8", "0">>,
   <<"1", "0", "0", "x", "1", "0", "0">>,
   <<"1", "7", "x", "9">>,
   <<"1", "x", "1">>,
   <<"0", "x", "0">>,
   <<"8", "x">>,
   <<"8", "*", "8">>}
RegionCodecs == {Lit("h264"), Lit("theora"), Lit("ffv1"), Lit("foo")}
Windows == {NoTuple, <<10, 20, 300, 201>>, <<1900, 1000, 100, 100>>}

RegionInputs ==
  \/ /\ opts \in {[DefaultOpts EXCEPT !.args = <<Lit("clip")>>,
                     !.xy = p, !.size = s, !.vcodec = v,
                     !.crop_top = c[1], !.crop_bottom = c[2],
                     !.crop_left = c[3], !.crop_right = c[4]] :
                    p \in PositionOptions, s \in SizeOptions, v \in RegionCodecs,
                    c \in [1..4 -> 0..MaxCrop]}
     /\ env = DefaultEnv
  \/ /\ opts \in {[DefaultOpts EXCEPT !.args = <<Lit("clip")>>,
                     !.capture_window = TRUE, !.vcodec = v,
                     !.xy = p,
                     !.crop_top = c[1], !.crop_bottom = c[2],
                     !.crop_left = c[3], !.crop_right = c[4]] :
                    p \in {None, <<"5", "x", "7">>},
                    v \in {Lit("h264"), Lit("theora")},
                    c \in [1..4 -> 0..MaxCrop]}
     /\ env \in {[DefaultEnv EXCEPT !.xwininfo = w] : w \in Windows}
  \/ /\ opts \in {[DefaultOpts EXCEPT !.args = <<Lit("clip")>>,
                     !.capture_window = cw, !.size = s] :
                    cw \in BOOLEAN, s \in {None, <<"1", "0", "0", "x", "1", "0", "0">>}}
     /\ env \in {[DefaultEnv EXCEPT !.have_tk = FALSE, !.xdpyinfo = q,
                    !.xwininfo = <<10, 20, 300, 201>>] :
                   q \in {"ok", "oserror", "nodims"}}

\* command lines
CommandInputs ==
  /\ opts \in {[DefaultOpts EXCEPT !.args = a, !.no_audio = n,
                  !.vcodec = v, !.acodec = ac, !.xy = p, !.size = s] :
                 a \in {<<Lit("clip")>>, <<Lit("clip") \o Lit(".") \o Lit("webm")>>},
                 n \in BOOLEAN,
                 v \in DOMAIN mults \cup {Lit("foo")},
                 ac \in {Lit("aac"), Lit("vorbis"), Lit("bogus")},
                 p \in {None, <<"5", "x", "7">>},
                 s \in {None, <<"1", "0", "0", "x", "5", "0">>}}
  /\ env \in {[DefaultEnv EXCEPT !.os_name = o, !.have_multiproc = m] :
                o \in {"posix", "nt"}, m \in BOOLEAN}

Init ==
  /\ \/ ToolInputs
     \/ ContainerInputs
     \/ PathInputs
     \/ RegionInputs
     \/ CommandInputs
  /\ pc = "start"
  /\ err = ""
  /\ TOOL = None
  /\ probed = <<>>
  /\ outfile = None
  /\ container = None
  /\ acodec = None
  /\ vcodec = None
  /\ dres = NoTuple
  /\ x = 0 /\ y = 0 /\ width = 0 /\ height = 0
  /\ cmd = <<>>
  /\ launched = 0
  /\ done = <<>>

Spec == Init /\ [][Next]_vars

----------------------------------------------------------------------------
(* Properties *)

\* step s of the run has completed
Did(s) == \E k \in 1..Len(done) : done[k] = s
\* the rectangle has been cropped and aligned
RegionResolved == Did("region")
\* x + width > desktopWidth or y + height > desktopHeight
OffScreenNow == (x + width) > dres[1] \/ (y + height) > dres[2]
\* an option holding a non-empty string
Given(v) == v # None /\ v # <<>>
\* s ends with t
EndsWith(s, t) == Len(s) >= Len(t) /\ SubSeq(s, Len(s) - Len(t) + 1, Len(s)) = t

\* C1: the capture process is launched at most once, and only after tool
\* selection, container validation, the desktop-geometry query, region
\* resolution (with a successful window pick in window-pick mode) and the
\* off-screen check have succeeded, in that order; a run in which one of
\* them fails ends without a launch.
C1_LaunchOnlyAfterPipeline ==
  /\ launched <= 1
  /\ (pc = "exit" \/ err # "") => launched = 0
  /\ Did("launch") <=> launched = 1
  /\ launched = 1 =>
       /\ done = <<"tool", "container", "geometry", "region", "onscreen", "launch">>
       /\ TOOL # None
       /\ probed # <<>> /\ probed[Len(probed)].ret = 1 /\ probed[Len(probed)].tool = TOOL
       /\ ~(Given(opts.container) /\ opts.container \notin ACCEPTABLE_FILE_EXTENSIONS)
       /\ dres # NoTuple
       /\ opts.capture_window => env.xwininfo # NoTuple
       /\ vcodec \in DOMAIN vcodecs
       /\ ~opts.capture_window /\ Given(opts.xy) => MatchesNxN(strip(opts.xy))
       /\ ~opts.capture_window /\ Given(opts.size) => MatchesNxN(strip(opts.size))
       /\ ~OffScreenNow
  /\ \A k \in 1..Len(done) : \A j \in 1..(k - 1) :
       <<done[j], done[k]>> \in
         {<<"tool", "container">>, <<"tool", "geometry">>, <<"tool", "region">>,
          <<"tool", "onscreen">>, <<"tool", "launch">>,
          <<"container", "geometry">>, <<"container", "region">>,
          <<"container", "onscreen">>, <<"container", "launch">>,
          <<"geometry", "region">>, <<"geometry", "onscreen">>, <<"geometry", "launch">>,
          <<"region", "onscreen">>, <<"region", "launch">>,
          <<"onscreen", "launch">>}

\* C1 witness: a window-pick run that reached the launch
C1_Witness == launched = 1 /\ opts.capture_window /\ pc = "done"

\* the probe sequence as the claim gives it
C2_Sequence ==
  IF Given(opts.tool) THEN <<opts.tool>>
  ELSE <<Lit("ffmpeg"), Lit("avconv"), Lit("vlc")>>

\* C2: tool selection binds the first tool of the probe sequence (--tool
\* alone when given, else ffmpeg, avconv, vlc) whose probe succeeds: the
\* tools before it were probed and returned false, none after it is probed,
\* and when every probe of the sequence returns false the run fails with
\* NoToolAvailable and no tool bound.
C2_FirstSuccessfulProbeWins ==
  /\ Len(probed) <= Len(C2_Sequence)
  /\ \A k \in 1..Len(probed) : probed[k].tool = C2_Sequence[k]
  /\ \A k \in 1..(Len(probed) - 1) : ~probed[k].raised /\ probed[k].ret = 0
  /\ TOOL # None =>
       /\ probed # <<>>
       /\ ~probed[Len(probed)].raised
       /\ probed[Len(probed)].ret = 1
       /\ TOOL = probed[Len(probed)].tool
  /\ Did("tool") <=> TOOL # None
  /\ (probed # <<>> /\ ~probed[Len(probed)].raised /\ probed[Len(probed)].ret = 1)
       => TOOL = probed[Len(probed)].tool /\ pc # "tool"
  /\ (Len(probed) = Len(C2_Sequence)
      /\ \A k \in 1..Len(probed) : ~probed[k].raised /\ probed[k].ret = 0)
       => pc = "exit" /\ err = "NoToolAvailable" /\ TOOL = None
  /\ err = "NoToolAvailable" =>
       /\ Len(probed) = Len(C2_Sequence)
       /\ \A k \in 1..Len(probed) : ~probed[k].raised /\ probed[k].ret = 0

\* C2 witness: ffmpeg probed and false, avconv probed and bound, vlc not probed
C2_Witness ==
  /\ ~Given(opts.tool)
  /\ Len(probed) = 2
  /\ probed[1].ret = 0
  /\ TOOL = Lit("avconv")
  /\ pc = "done"

\* C3: probe(toolName) returns false without raising when the executable is
\* absent and when it is present but prints the unrecognized-option marker,
\* returns true when the tool runs without the marker, and raises only on a
\* spawn failure other than file-not-found.
C3_ProbeNeverRaisesOnIncompatibleTool ==
  \A k \in 1..Len(probed) :
    LET st == env.tool_status[probed[k].tool]
    IN  /\ st = "enoent" => ~probed[k].raised /\ probed[k].ret = 0
        /\ st = "unrecognized" => ~probed[k].raised /\ probed[k].ret = 0
        /\ st = "ok" => ~probed[k].raised /\ probed[k].ret = 1
        /\ st = "oserror" => probed[k].raised

\* the alignment the codec in use asks for
AlignmentInUse == mults[vcodec]

\* C4: every video codec of the registry has a positive integer alignment,
\* and the width and height of the rectangle region resolution produces are
\* exact multiples of the alignment of the codec in use.
C4_SizeIsMultipleOfAlignment ==
  /\ \A c \in DOMAIN vcodecs : c \in DOMAIN mults /\ mults[c] \in Nat /\ mults[c] > 0
  /\ RegionResolved =>
       /\ (width \div AlignmentInUse) * AlignmentInUse = width
       /\ (height \div AlignmentInUse) * AlignmentInUse = height

\* C4 witness: theora's alignment of 8 cut 1919 x 1079 down to 1912 x 1072
C4_Witness ==
  /\ RegionResolved
  /\ vcodec = Lit("theora")
  /\ width = 1912
  /\ height = 1072

\* C5: region resolution fails with OffScreen exactly when the cropped and
\* aligned rectangle has x + width > desktopWidth or y + height >
\* desktopHeight; a launched rectangle has x + width <= desktopWidth and
\* y + height <= desktopHeight.
C5_OffScreenExactly ==
  /\ (RegionResolved /\ pc \notin {"verify"} /\ dres # NoTuple) =>
       (err = "OffScreen" <=> OffScreenNow)
  /\ err = "OffScreen" => RegionResolved /\ dres # NoTuple /\ pc = "exit"
  /\ launched = 1 => (x + width) <= dres[1] /\ (y + height) <= dres[2]

\* C5 witness: a rectangle that fits across and is rejected for its height
C5_Witness ==
  /\ err = "OffScreen"
  /\ (x + width) <= dres[1]
  /\ (y + height) > dres[2]

\* decimal value of a string of digits, read from the left
RECURSIVE DecFrom(_, _)
DecFrom(s, acc) ==
  IF s = <<>> THEN acc ELSE DecFrom(Tail(s), 10 * acc + DigitValue(Head(s)))
\* decimal value of an optionally signed string of digits
Dec(s) == IF s # <<>> /\ Head(s) = "-" THEN 0 - DecFrom(Tail(s), 0) ELSE DecFrom(s, 0)
\* the text before, and after, the "x" of a string that holds one
BeforeX(s) == SubSeq(s, 1, (CHOOSE k \in 1..Len(s) : s[k] = "x") - 1)
AfterX(s) == SubSeq(s, (CHOOSE k \in 1..Len(s) : s[k] = "x") + 1, Len(s))
\* s without the blanks around it
Unblank(s) == SelectSeq(s, LAMBDA c : c # " ")

\* the base rectangle as the claim gives it: the picked window, else the
\* explicit position or (0,0) and the explicit size or the whole desktop
BaseRect ==
  IF opts.capture_window THEN env.xwininfo
  ELSE <<IF Given(opts.xy) THEN Dec(BeforeX(Unblank(opts.xy))) ELSE 0,
         IF Given(opts.xy) THEN Dec(AfterX(Unblank(opts.xy))) ELSE 0,
         IF Given(opts.size) THEN Dec(BeforeX(Unblank(opts.size))) ELSE env.screen[1],
         IF Given(opts.size) THEN Dec(AfterX(Unblank(opts.size))) ELSE env.screen[2]>>
CroppedWidth == BaseRect[3] - opts.crop_left - opts.crop_right
CroppedHeight == BaseRect[4] - opts.crop_top - opts.crop_bottom

\* C6 as stated: after crop and alignment width > 0 and height > 0, and a
\* rectangle that is not so produces a validation error instead of reaching
\* command synthesis and launch.
C6_PositiveSizeOrError ==
  (RegionResolved /\ pc \in {"command", "launch", "done"}) => width > 0 /\ height > 0

\* the run can build its command line: the codecs it looks up are known
CodecsKnown ==
  /\ vcodec \in DOMAIN vcodecs
  /\ (opts.no_audio \/ env.os_name = "nt" \/ acodec \in DOMAIN acodecs)

\* C6 as amended: the size of the rectangle after crop and alignment is not
\* validated.  Its width (height) is positive exactly when the base width
\* (height) less the crop margins is at least the alignment; a rectangle
\* whose width or height is zero or negative produces no validation error,
\* and when it passes the off-screen check it goes on to command synthesis
\* and launch like any other.
C6_SizeNotValidated ==
  /\ RegionResolved =>
       /\ width > 0 <=> CroppedWidth >= AlignmentInUse
       /\ height > 0 <=> CroppedHeight >= AlignmentInUse
  /\ (RegionResolved /\ pc = "exit") => err \in {"OffScreen", "TypeError", "UnknownCodec"}
  /\ (RegionResolved /\ dres # NoTuple /\ CodecsKnown /\ pc \in {"exit", "done"}) =>
       (launched = 1 <=> ~OffScreenNow)

\* C6 witness: a rectangle of negative width and zero height was launched
C6_Witness ==
  /\ launched = 1
  /\ width < 0
  /\ height = 0

\* the accepted containers as the claim gives them
AcceptedContainers ==
  {Lit("avi"), Lit("mp4"), Lit("mov"), Lit("mkv"), Lit("ogv"), Lit("webm")}
\* the path the run was asked to write: the positional argument, else the
\* default path
RequestedPath ==
  IF opts.args # <<>> THEN opts.args[1] ELSE get_default_output_path(opts.container)
\* the requested path ends with "." and the accepted extension e
HasExtension(e) == EndsWith(RequestedPath, Lit(".") \o e)
\* lines 422-439 have run
ExtensionReconciled == container # None

\* C7: an explicit container outside {avi, mp4, mov, mkv, ogv, webm} fails
\* with UnsupportedContainer; otherwise the container is the explicit option
\* when given, else the path's extension when that is accepted, else mkv, and
\* the final path is the requested path when its extension is accepted, else
\* the requested path with "." and the container appended.
C7_ContainerReconciled ==
  /\ (Did("tool") /\ pc # "container"
      /\ Given(opts.container) /\ opts.container \notin AcceptedContainers)
       => pc = "exit" /\ err = "UnsupportedContainer" /\ ~ExtensionReconciled
  /\ err = "UnsupportedContainer"
       => Given(opts.container) /\ opts.container \notin AcceptedContainers
  /\ ExtensionReconciled =>
       /\ container = IF Given(opts.container) THEN opts.container
                      ELSE IF \E e \in AcceptedContainers : HasExtension(e)
                      THEN CHOOSE e \in AcceptedContainers : HasExtension(e)
                      ELSE Lit("mkv")
       /\ outfile = IF \E e \in AcceptedContainers : HasExtension(e)
                    THEN RequestedPath
                    ELSE RequestedPath \o Lit(".") \o container

\* C7 witness: "clip.mp4" with --container avi keeps its name and is avi
C7_Witness ==
  /\ ExtensionReconciled
  /\ opts.args = <<Lit("clip") \o Lit(".") \o Lit("mp4")>>
  /\ opts.container = Lit("avi")
  /\ container = Lit("avi")
  /\ outfile = Lit("clip") \o Lit(".") \o Lit("mp4")

\* out_NNNN.ext for sequence number n, written digit by digit
NumberedName(n, ext) ==
  <<"out_", DigitChars[((n \div 1000) % 10) + 1], DigitChars[((n \div 100) % 10) + 1],
    DigitChars[((n \div 10) % 10) + 1], DigitChars[(n % 10) + 1], ".">> \o ext
\* the extension the default path is built for
DefaultPathExt == IF opts.container = None THEN Lit("mkv") ELSE opts.container

\* C8: defaultOutputPath(ext) returns out_NNNN.ext for the smallest N in
\* 1..9999 that no existing file uses, out_9999.ext when all 9999 are used,
\* and the name of an existing file only when all 9999 are used.
C8_FirstUnusedNumber ==
  (pc = "ext" /\ opts.args = <<>>) =>
    /\ \E n \in 1..9999 :
         /\ outfile = NumberedName(n, DefaultPathExt)
         /\ \A j \in 1..(n - 1) : NumberedName(j, DefaultPathExt) \in env.files
         /\ n < 9999 => NumberedName(n, DefaultPathExt) \notin env.files
    /\ outfile \in env.files =>
         \A j \in 1..9999 : NumberedName(j, DefaultPathExt) \in env.files

\* C8 witness: with out_0001 .. out_0050 taken the path is out_0051.mkv
C8_Witness ==
  /\ pc = "ext"
  /\ opts.args = <<>>
  /\ \A j \in 1..50 : NumberedName(j, Lit("mkv")) \in env.files
  /\ outfile = <<"out_", "0", "0", "5", "1", ".", "mkv">>

\* C9: x = baseX + cropLeft, y = baseY + cropTop, width = the largest
\* multiple of the alignment not above baseWidth - cropLeft - cropRight,
\* height = the largest multiple of the alignment not above baseHeight -
\* cropTop - cropBottom; alignment leaves x and y alone.
C9_CropThenAlign ==
  RegionResolved =>
    /\ x = BaseRect[1] + opts.crop_left
    /\ y = BaseRect[2] + opts.crop_top
    /\ (width \div AlignmentInUse) * AlignmentInUse = width
    /\ width <= CroppedWidth
    /\ CroppedWidth < width + AlignmentInUse
    /\ (height \div AlignmentInUse) * AlignmentInUse = height
    /\ height <= CroppedHeight
    /\ CroppedHeight < height + AlignmentInUse

\* C9 witness: 1920 wide, crop-right 1, alignment 2 gives width 1918
C9_Witness ==
  /\ RegionResolved
  /\ BaseRect[3] = 1920
  /\ opts.crop_left = 0
  /\ opts.crop_right = 1
  /\ AlignmentInUse = 2
  /\ width = 1918

\* the place of token t in the argument vector
Where(t) == CHOOSE k \in 1..Len(cmd) : cmd[k] = t

\* C10: in the argument vector the size token is <width>x<height> and the
\* offset is x then y, on both platforms; the first token is the bound tool
\* and the last token is the output path.
C10_CommandDescribesRectangle ==
  pc \in {"launch", "done"} =>
    /\ cmd[1] = TOOL
    /\ cmd[Len(cmd)] = outfile
    /\ IF env.os_name = "nt"
       THEN /\ Cardinality({k \in 1..Len(cmd) : cmd[k] = Lit("-video_size")}) = 1
            /\ Dec(BeforeX(cmd[Where(Lit("-video_size")) + 1])) = width
            /\ Dec(AfterX(cmd[Where(Lit("-video_size")) + 1])) = height
            /\ Dec(cmd[Where(Lit("-offset_x")) + 1]) = x
            /\ Dec(cmd[Where(Lit("-offset_y")) + 1]) = y
       ELSE /\ Cardinality({k \in 1..Len(cmd) : cmd[k] = Lit("-s")}) = 1
            /\ Dec(BeforeX(cmd[Where(Lit("-s")) + 1])) = width
            /\ Dec(AfterX(cmd[Where(Lit("-s")) + 1])) = height
            /\ cmd[Where(Lit("-s")) + 2] = Lit("-i")
            /\ cmd[Where(Lit("-s")) + 3] =
                 opts.display_device \o <<"+">> \o Str(x) \o <<",">> \o Str(y)

\* C10 witness: a launched 100 x 50 rectangle at (5, 7) with audio
C10_Witness ==
  /\ pc = "done"
  /\ ~opts.no_audio
  /\ env.os_name = "posix"
  /\ width = 100 /\ height = 50
  /\ x = 5 /\ y = 7

\* the codecs the reconciled container calls for
VideoCodecFor == IF container = Lit("webm") THEN Lit("vp8") ELSE opts.vcodec
AudioCodecFor == IF container = Lit("webm") THEN Lit("vorbis") ELSE opts.acodec
\* lines 442-453 have run
CodecsFixed == vcodec # None
\* the command line carries audio tokens
AudioCaptured == ~opts.no_audio /\ env.os_name # "nt"

\* C11: when the reconciled container is webm the codecs in use are vp8 and
\* vorbis whatever --vcodec and --acodec say, and the alignment applied to
\* the region and the codec fragments of the command line are those of vp8
\* and vorbis; for any other container the requested codecs are used as
\* they are.
C11_WebmForcesCodecs ==
  /\ CodecsFixed => vcodec = VideoCodecFor /\ acodec = AudioCodecFor
  /\ (pc \in {"align", "verify", "command", "launch", "done"} /\ VideoCodecFor \notin DOMAIN mults)
       => pc = "align"
  /\ RegionResolved =>
       /\ VideoCodecFor \in DOMAIN mults
       /\ width <= CroppedWidth /\ CroppedWidth < width + mults[VideoCodecFor]
       /\ height <= CroppedHeight /\ CroppedHeight < height + mults[VideoCodecFor]
       /\ (width \div mults[VideoCodecFor]) * mults[VideoCodecFor] = width
       /\ (height \div mults[VideoCodecFor]) * mults[VideoCodecFor] = height
  /\ pc \in {"launch", "done"} =>
       LET vf == vcodecs[VideoCodecFor]
           af == acodecs[AudioCodecFor]
           t == Where(Lit("-threads"))
       IN  /\ VideoCodecFor \in DOMAIN vcodecs
           /\ Cardinality({k \in 1..Len(cmd) : cmd[k] = Lit("-threads")}) = 1
           /\ SubSeq(cmd, t - Len(vf), t - 1) = vf
           /\ cmd[t - Len(vf) - 2] = Lit("-i")
           /\ Cardinality({k \in 1..Len(cmd) : cmd[k] = Lit("-c:v")}) = 1
           /\ AudioCaptured =>
                /\ AudioCodecFor \in DOMAIN acodecs
                /\ SubSeq(cmd, 2, 7) =
                     <<Lit("-f"), Lit("alsa"), Lit("-ac"), Lit("2"), Lit("-i"), opts.audio_device>>
                /\ SubSeq(cmd, 8, 7 + Len(af)) = af
                /\ cmd[8 + Len(af)] = outfile
                /\ Cardinality({k \in 1..Len(cmd) : cmd[k] = Lit("-c:a")}) = 1
           /\ ~AudioCaptured => \A k \in 1..Len(cmd) : cmd[k] # Lit("-c:a")

\* C11 witness: clip.webm asked for with theora and aac was launched with
\* vp8 and vorbis, 100 x 50 left as it is where theora would give 96 x 48
C11_Witness ==
  /\ pc = "done"
  /\ container = Lit("webm")
  /\ opts.vcodec = Lit("theora")
  /\ opts.acodec = Lit("aac")
  /\ ~opts.no_audio /\ env.os_name = "posix"
  /\ width = 100 /\ height = 50

====
